---- MODULE Spec2Model ----
(***************************************************************************)
(* A model of the parallel execution engine of abc-rs: the task scheduler  *)
(* (src/src/task.rs) and the swarm that drives it (src/src/hive.rs).       *)
(*                                                                         *)
(* Option<T> values are sequences of length at most one: None is << >> and *)
(* Some(x) is <<x>>.  A candidate is represented by its fitness, the only  *)
(* field the engine ever reads.                                            *)
(***************************************************************************)
EXTENDS Integers, Sequences, FiniteSets, TLC

\* ------------------------------------------------------------------ bounds
MaxWorkers == 3
MaxObservers == 2
MaxRounds == 2
MaxEmit == 11
MaxFitness == 2
MaxRetries == 2
MaxThreads == 2
MaxSlots == 2
MaxSwarmObservers == 1
MaxRunRounds == 1
RoundCap == 2

\* ------------------------------------------------------------ Option<T>
None == << >>
Some(x) == <<x>>
IsSome(o) == Len(o) = 1
Unwrap(o) == o[1]

\* ------------------------------------------------------------ task.rs
Worker(n) == [kind |-> "Worker", n |-> n]
Observer(n) == [kind |-> "Observer", n |-> n]

\* TaskGenerator::new
TaskGenerator_new(w, o) ==
    [workers |-> w, observers |-> o, round |-> 0, max_rounds |-> None,
     next |-> Worker(0), stopped |-> FALSE]

\* TaskGenerator::max_rounds
TaskGenerator_max_rounds(g, n) == [g EXCEPT !.max_rounds = Some(n)]

\* A stop() that flips the flag instead of setting it.
TaskGenerator_stop_Toggles(g) == [g EXCEPT !.stopped = ~g.stopped]

\* TaskGenerator::stop
TaskGenerator_stop(g) == [g EXCEPT !.stopped = TRUE]

\* A round counter that is not advanced.
RoundBump_Never(r) == r

\* The round counter after the last observer of a phase has been yielded.
RoundBump(r) == r + 1

\* A successor of Worker(n) that never leaves the worker phase.
AfterWorker_NoWrap(g, n) == Worker(n + 1)

\* The token that follows Worker(n).
AfterWorker(g, n) ==
    IF n = g.workers - 1
    THEN (IF g.observers > 0 THEN Observer(0) ELSE Worker(0))
    ELSE Worker(n + 1)

\* The generator after the match on self.next (the successor state of next()).
Advance(g) ==
    IF g.next.kind = "Worker"
    THEN [g EXCEPT !.next = AfterWorker(g, g.next.n)]
    ELSE IF g.next.n = g.observers - 1
         THEN LET r == RoundBump(g.round)
              IN [g EXCEPT !.round = r,
                           !.stopped = IF IsSome(g.max_rounds)
                                       THEN (r >= Unwrap(g.max_rounds))
                                       ELSE g.stopped,
                           !.next = Worker(0)]
         ELSE [g EXCEPT !.next = Observer(g.next.n + 1)]

\* A next() that does not look at the stop flag.
TaskGenerator_next_IgnoresStop(g) == [item |-> Some(g.next), gen |-> Advance(g)]

\* Iterator::next for TaskGenerator: the item returned and the generator left.
TaskGenerator_next(g) ==
    IF g.stopped
    THEN [item |-> None, gen |-> g]
    ELSE [item |-> Some(g.next), gen |-> Advance(g)]

\* ------------------------------------------------------------ hive.rs
Fitness == 0..MaxFitness
Threads == 1..MaxThreads

\* WorkingCandidate::new (candidate.rs): a candidate with a full retry budget.
WorkingCandidate_new(c, retries) == [candidate |-> c, retries |-> retries]

\* WorkingCandidate::deplete (candidate.rs): one retry fewer, never below zero.
deplete(wc) ==
    [wc EXCEPT !.retries = IF wc.retries > 0 THEN wc.retries - 1 ELSE 0]

\* WorkingCandidate::expired (candidate.rs): no retry is left.
expired(wc) == wc.retries = 0

\* The default scaling function (scaling.rs), proportionate to fitness.
proportionate(fitnesses) == fitnesses

\* Running totals of a sequence of weights (the scan of Swarm::choose).
RECURSIVE running_totals(_)
running_totals(ws) ==
    IF ws = << >> THEN << >>
    ELSE LET init == running_totals(SubSeq(ws, 1, Len(ws) - 1))
             total == IF init = << >> THEN 0 ELSE init[Len(init)]
         IN Append(init, total + ws[Len(ws)])

\* Swarm::choose: the indices (0-based) the draw can select.  The draw is a
\* point of [0, total); index i is returned when it is the first whose running
\* total exceeds the point, which some point does exactly when the weight at
\* i is positive.  No index is returned when the total is zero.
choose(cw) ==
    LET totals == running_totals(proportionate(cw))
    IN {i \in 0..(Len(cw) - 1) :
          totals[i + 1] > (IF i = 0 THEN 0 ELSE totals[i])}

\* Swarm::work_on, the comparison of line 179.
Improves(variant, wc) == variant > wc.candidate

\* A comparison that lets a tie through.
Better_OrEqual(candidate, b) == candidate >= b

\* Swarm::consider_improvement, the comparison of line 162.
Better(candidate, b) == candidate > b

\* A best slot that is never updated.
consider_best_Never(candidate, b) == b

\* A best slot that takes whatever it is offered.
consider_best_Unconditional(candidate, b) == candidate

\* Swarm::consider_improvement: the best slot after the candidate was offered.
consider_best(candidate, b) == IF Better(candidate, b) THEN candidate ELSE b

\* A stop() that leaves the scheduler as it is.
Swarm_stop_Ignores(ts) == ts

\* Swarm::stop on the scheduler slot.
Swarm_stop(ts) ==
    IF IsSome(ts) THEN Some(TaskGenerator_stop(Unwrap(ts))) ELSE ts

\* Swarm::get_round on the scheduler slot.
Swarm_get_round(ts) == IF IsSome(ts) THEN Some(Unwrap(ts).round) ELSE None

\* A write lock that is granted whoever holds it.
RwLock_write_free_Always(holders) == TRUE

\* RwLock::write (work_on, line 178) is granted once nobody holds the lock.
RwLock_write_free(holders) == holders = {}

\* A scheduler guard that is kept after the pull.
drop_guard_Forgotten(holders) == holders

\* drop(guard) of Swarm::run, line 242: the scheduler lock after it.
drop_guard(holders) == {}

\* A best guard that is never given back.
release_Leaks(holders, t) == holders

\* The best lock after thread t's guard on it went out of scope (the return of
\* consider_improvement).
release(holders, t) == holders \ {t}

\* A fold1 that keeps the last candidate.
best_of_Last(cs) == cs[Len(cs)]

\* The best of the initial population (the fold1 of Swarm::new).
RECURSIVE best_of(_)
best_of(cs) ==
    IF Len(cs) = 1 THEN cs[1]
    ELSE LET b == best_of(SubSeq(cs, 1, Len(cs) - 1))
         IN IF cs[Len(cs)] > b THEN cs[Len(cs)] ELSE b

VARIABLES
    gen,        \* a TaskGenerator driven directly through next()
    emitted,    \* the tokens next() has returned so far, oldest first
    result,     \* what the last call of next() returned
    calls,      \* "none" before the first call of next(), "some" after
    ext_stop,   \* whether stop() was called on gen
    hive,       \* Hive: workers, observers, retries, threads
    working,    \* Swarm.working: the slots, slot n at position n + 1
    best,       \* Swarm.best
    tasks,      \* Swarm.tasks: Option<TaskGenerator>
    streaming,  \* Swarm.streaming: Some("sender") once stream() attached one
    receiver,   \* the Receiver stream() returned: "none", "alive", "dropped"
    delivered,  \* the candidates sent successfully, oldest first
    tasks_lock, \* holder of the Mutex of tasks (a set of at most one thread)
    write_lock, \* per slot, holder of the write side of its RwLock
    best_lock,  \* holder of the Mutex of best
    sender_lock,  \* holder of the Mutex of the Sender
    builder_lock, \* holder of the Mutex of hive.builder
    pc,         \* per worker thread, its position in the loop of Swarm::run
    task,       \* per worker thread, the Option<Task> it pulled
    current_working, \* per worker thread, the snapshot it has cloned so far
    index,      \* per worker thread, the slot work_on was called for
    main_pc,    \* the caller of run: "idle", "running", "done", "panicked"
    run_result, \* how run ended: "none" (not yet), "Ok", "Panic"
    returned,   \* the Option<Candidate> run_for_rounds returned
    chosen,     \* whether Swarm::choose has been invoked
    improved,   \* the values written to best with a sink attached, oldest first
    last_stop,  \* what the last stop() call of the swarm's owner found
    seen_round, \* what the last get_round() call of the swarm's owner returned
    seen_stale, \* whether a scheduler was installed since that call
    tokens,     \* Swarm::new: the start of what is left of Range 0..workers
    candidates, \* Swarm::new: the candidates pushed so far
    built,      \* Swarm::new: per thread, the candidate built, not yet pushed
    made,       \* the number of S::make calls Swarm::new has made
    tokens_lock \* Swarm::new: holder of the Mutex of tokens

gvars == <<gen, emitted, result, calls, ext_stop>>

locks == <<tasks_lock, write_lock, best_lock, sender_lock, builder_lock>>

locals == <<task, current_working, index>>

nvars == <<tokens, candidates, built, made, tokens_lock>>

svars == <<hive, working, best, tasks, streaming, receiver, delivered, locks,
           pc, locals, main_pc, run_result, returned, chosen, improved,
           last_stop, seen_round, seen_stale, nvars>>

vars == <<gvars, svars>>

\* --------------------------------------------- the scheduler on its own
\* A swarm that takes no part: one slot, no thread spawned, nothing installed.
SwarmIdle ==
    /\ hive = [workers |-> 1, observers |-> 0, retries |-> 0, threads |-> 1]
    /\ working = <<WorkingCandidate_new(0, 0)>>
    /\ best = 0
    /\ tasks = None
    /\ streaming = None
    /\ receiver = "none"
    /\ delivered = << >>
    /\ tasks_lock = {}
    /\ write_lock = <<{}>>
    /\ best_lock = {}
    /\ sender_lock = {}
    /\ builder_lock = {}
    /\ pc = [t \in Threads |-> "unspawned"]
    /\ task = [t \in Threads |-> None]
    /\ current_working = [t \in Threads |-> << >>]
    /\ index = [t \in Threads |-> 0]
    /\ main_pc = "idle"
    /\ run_result = "none"
    /\ returned = None
    /\ chosen = FALSE
    /\ improved = << >>
    /\ last_stop = "never"
    /\ seen_round = None
    /\ seen_stale = FALSE
    /\ tokens = 1
    /\ candidates = << >>
    /\ built = [t \in Threads |-> None]
    /\ made = 1
    /\ tokens_lock = {}

GenInit ==
    /\ \E w \in 1..MaxWorkers, o \in 0..MaxObservers, r \in 0..MaxRounds :
          gen = TaskGenerator_max_rounds(TaskGenerator_new(w, o), r)
    /\ emitted = << >>
    /\ result = None
    /\ calls = "none"
    /\ ext_stop = FALSE
    /\ SwarmIdle

\* One call of next().
GenNext ==
    /\ Len(emitted) < MaxEmit
    /\ LET r == TaskGenerator_next(gen)
       IN /\ gen' = r.gen
          /\ result' = r.item
          /\ emitted' = IF IsSome(r.item) THEN Append(emitted, Unwrap(r.item))
                        ELSE emitted
    /\ calls' = "some"
    /\ UNCHANGED <<ext_stop, svars>>

\* One call of stop().
GenStop ==
    /\ gen' = TaskGenerator_stop(gen)
    /\ ext_stop' = TRUE
    /\ UNCHANGED <<emitted, result, calls, svars>>

GenStep == GenNext \/ GenStop

SpecGen == GenInit /\ [][GenStep]_vars

\* ------------------------------------------------------------ the swarm
\* The swarm as Swarm::new leaves it: every slot holds a candidate S::make
\* built, with the full retry budget; best is the best of them; no scheduler
\* is installed, no sink attached, no lock held, no worker thread spawned.
Init ==
    /\ \E w \in 1..MaxSlots, o \in 0..MaxSwarmObservers,
          r \in 0..MaxRetries, n \in 1..MaxThreads :
          hive = [workers |-> w, observers |-> o, retries |-> r, threads |-> n]
    /\ \E cs \in [1..hive.workers -> Fitness] :
          /\ working = [i \in 1..hive.workers |->
                           WorkingCandidate_new(cs[i], hive.retries)]
          /\ best = best_of(cs)
    /\ tasks = None
    /\ streaming = None
    /\ receiver = "none"
    /\ delivered = << >>
    /\ tasks_lock = {}
    /\ write_lock = [i \in 1..hive.workers |-> {}]
    /\ best_lock = {}
    /\ sender_lock = {}
    /\ builder_lock = {}
    /\ pc = [t \in Threads |-> "unspawned"]
    /\ task = [t \in Threads |-> None]
    /\ current_working = [t \in Threads |-> << >>]
    /\ index = [t \in Threads |-> 0]
    /\ main_pc = "idle"
    /\ run_result = "none"
    /\ returned = None
    /\ chosen = FALSE
    /\ improved = << >>
    /\ last_stop = "never"
    /\ seen_round = None
    /\ seen_stale = FALSE
    /\ tokens = hive.workers
    /\ candidates = << >>
    /\ built = [t \in Threads |-> None]
    /\ made = hive.workers
    /\ tokens_lock = {}
    /\ gen = TaskGenerator_new(1, 0)
    /\ emitted = << >>
    /\ result = None
    /\ calls = "none"
    /\ ext_stop = FALSE

Spawned == 1..hive.threads

\* Swarm::run, lines 229-250: install the scheduler and spawn the pool.
Install(g) ==
    /\ tasks_lock = {}
    /\ tasks' = Some(g)
    /\ pc' = [t \in Threads |-> IF t \in Spawned THEN "loop" ELSE "unspawned"]
    /\ main_pc' = "running"

\* Swarm::run_for_rounds(rounds) on a fresh swarm, up to the spawning of the
\* pool.
RunForRounds ==
    \E rounds \in 0..MaxRunRounds :
        /\ main_pc = "idle"
        /\ Install(TaskGenerator_max_rounds(
                      TaskGenerator_new(hive.workers, hive.observers), rounds))
        /\ UNCHANGED <<hive, working, best, streaming, receiver, delivered,
                       locks, locals, run_result, returned, chosen, improved,
                       last_stop, seen_round, seen_stale, gvars, nvars>>

\* Swarm::run_for_rounds(rounds) on a swarm whose previous run has returned.
RunAgain ==
    \E rounds \in 0..MaxRunRounds :
        /\ main_pc = "done"
        /\ streaming = None
        /\ Install(TaskGenerator_max_rounds(
                      TaskGenerator_new(hive.workers, hive.observers), rounds))
        /\ task' = [t \in Threads |-> None]
        /\ run_result' = "none"
        /\ returned' = None
        /\ seen_stale' = IsSome(seen_round)
        /\ UNCHANGED <<hive, working, best, streaming, receiver, delivered,
                       locks, current_working, index, chosen, improved,
                       last_stop, seen_round, gvars, nvars>>

\* Swarm::stream on a fresh swarm, up to the spawning of the pool by the
\* background thread.
Stream ==
    /\ main_pc = "idle"
    /\ Install(TaskGenerator_new(hive.workers, hive.observers))
    /\ streaming' = Some("sender")
    /\ receiver' = "alive"
    /\ UNCHANGED <<hive, working, best, delivered, locks, locals, run_result,
                   returned, chosen, improved, last_stop, seen_round,
                   seen_stale, gvars, nvars>>

\* The caller of stream() drops the Receiver.
DropReceiver ==
    /\ receiver = "alive"
    /\ receiver' = "dropped"
    /\ UNCHANGED <<hive, working, best, tasks, streaming, delivered, locks, pc,
                   locals, main_pc, run_result, returned, chosen, improved,
                   last_stop, seen_round, seen_stale, gvars, nvars>>

\* Swarm::run, line 240: a worker thread locks the scheduler.  A run without
\* a round limit is followed up to round RoundCap.
LockTasks(t) ==
    /\ pc[t] = "loop"
    /\ tasks_lock = {}
    /\ (IsSome(tasks) /\ ~Unwrap(tasks).stopped) =>
          Unwrap(tasks).round < RoundCap
    /\ tasks_lock' = {t}
    /\ pc' = [pc EXCEPT ![t] = "locked"]
    /\ UNCHANGED <<hive, working, best, tasks, streaming, receiver, delivered,
                   write_lock, best_lock, sender_lock, builder_lock, locals,
                   main_pc, run_result, returned, chosen, improved,
                   last_stop, seen_round, seen_stale, gvars, nvars>>

\* A pull that hands out the head token and leaves the scheduler where it was.
pull_NoAdvance(ts) ==
    IF IsSome(ts)
    THEN [item |-> TaskGenerator_next(Unwrap(ts)).item, tasks |-> ts]
    ELSE [item |-> None, tasks |-> ts]

\* What guard.as_mut().and_then(|gen| gen.next()) returns and leaves (line 241).
pull(ts) ==
    IF IsSome(ts)
    THEN LET r == TaskGenerator_next(Unwrap(ts))
         IN [item |-> r.item, tasks |-> Some(r.gen)]
    ELSE [item |-> None, tasks |-> ts]

\* Swarm::run, lines 241-247: pull a token, drop the guard, leave on None.
Pull(t) ==
    /\ pc[t] = "locked"
    /\ LET r == pull(tasks)
       IN /\ tasks' = r.tasks
          /\ task' = [task EXCEPT ![t] = r.item]
          /\ pc' = [pc EXCEPT
                     ![t] = IF IsSome(r.item) THEN "read" ELSE "exited"]
    /\ tasks_lock' = drop_guard(tasks_lock)
    /\ UNCHANGED <<hive, working, best, streaming, receiver, delivered,
                   write_lock, best_lock, sender_lock, builder_lock,
                   current_working, index, main_pc, run_result,
                   returned, chosen, improved, last_stop, seen_round,
                   seen_stale, gvars, nvars>>

\* Swarm::execute, lines 221-224: the slot the token is executed on.  An
\* Observer token invokes choose, which has no index to return (and panics)
\* when the weights sum to zero.
targets(tk, cw) == IF tk.kind = "Worker" THEN {tk.n} ELSE choose(cw)

\* Swarm::current_working, one turn of its loop (read-lock, clone, unlock);
\* after the last turn Swarm::execute picks the slot to work on.
Read(t) ==
    /\ pc[t] = "read"
    /\ LET i == Len(current_working[t]) + 1
           cw == Append(current_working[t], working[i].candidate)
           tk == Unwrap(task[t])
       IN /\ write_lock[i] = {}
          /\ IF i < hive.workers
             THEN /\ current_working' = [current_working EXCEPT ![t] = cw]
                  /\ UNCHANGED <<pc, index, chosen>>
             ELSE /\ current_working' = [current_working EXCEPT ![t] = << >>]
                  /\ chosen' = (chosen \/ tk.kind = "Observer")
                  /\ IF targets(tk, cw) = {}
                     THEN /\ pc' = [pc EXCEPT ![t] = "panicked"]
                          /\ UNCHANGED index
                     ELSE \E n \in targets(tk, cw) :
                             /\ index' = [index EXCEPT ![t] = n]
                             /\ pc' = [pc EXCEPT ![t] = "explore"]
    /\ UNCHANGED <<hive, working, best, tasks, streaming, receiver, delivered,
                   locks, task, main_pc, run_result, returned,
                   improved, last_stop, seen_round, seen_stale, gvars, nvars>>

\* The thread is back at the head of the loop of Swarm::run, its locals dead.
BackToLoop(t) ==
    /\ pc' = [pc EXCEPT ![t] = "loop"]
    /\ task' = [task EXCEPT ![t] = None]
    /\ index' = [index EXCEPT ![t] = 0]
    /\ UNCHANGED current_working

\* A replacement that keeps the retries the replaced candidate had left.
compared_KeepsRetries(wc, v, retries) ==
    IF Improves(v, wc) THEN WorkingCandidate_new(v, wc.retries) ELSE deplete(wc)

\* Swarm::work_on, lines 179-185: the slot after the variant was compared
\* with it, before any re-initialisation.
compared(wc, v, retries) ==
    IF Improves(v, wc) THEN WorkingCandidate_new(v, retries) ELSE deplete(wc)

\* Swarm::work_on, lines 177-185: S::explore returns some candidate, with no
\* lock held; the thread then takes the slot's write lock and compares.
Explore(t) ==
    /\ pc[t] = "explore"
    /\ LET i == index[t] + 1
       IN /\ RwLock_write_free(write_lock[i])
          /\ \E v \in Fitness :
                /\ working' = [working EXCEPT
                                 ![i] = compared(working[i], v, hive.retries)]
                /\ IF Improves(v, working[i])
                   THEN /\ write_lock' = [write_lock EXCEPT ![i] = {t}]
                        /\ pc' = [pc EXCEPT ![t] = "consider"]
                        /\ UNCHANGED locals
                   ELSE IF expired(deplete(working[i]))
                   THEN /\ write_lock' = [write_lock EXCEPT ![i] = {t}]
                        /\ pc' = [pc EXCEPT ![t] = "builder"]
                        /\ UNCHANGED locals
                   ELSE /\ BackToLoop(t)
                        /\ UNCHANGED write_lock
    /\ UNCHANGED <<hive, best, tasks, streaming, receiver, delivered,
                   tasks_lock, best_lock, sender_lock, builder_lock, main_pc,
                   run_result, returned, chosen, improved, last_stop,
                   seen_round, seen_stale, gvars, nvars>>

\* Swarm::work_on, line 186: lock the builder.
LockBuilder(t) ==
    /\ pc[t] = "builder"
    /\ builder_lock = {}
    /\ builder_lock' = {t}
    /\ pc' = [pc EXCEPT ![t] = "make"]
    /\ UNCHANGED <<hive, working, best, tasks, streaming, receiver, delivered,
                   tasks_lock, write_lock, best_lock, sender_lock, locals,
                   main_pc, run_result, returned, chosen, improved,
                   last_stop, seen_round, seen_stale, gvars, nvars>>

\* Swarm::work_on, lines 187-189: S::make builds some candidate, which
\* replaces the expired one.
Make(t) ==
    /\ pc[t] = "make"
    /\ \E f \in Fitness :
          working' = [working EXCEPT
                        ![index[t] + 1] = WorkingCandidate_new(f, hive.retries)]
    /\ builder_lock' = {}
    /\ pc' = [pc EXCEPT ![t] = "consider"]
    /\ UNCHANGED <<hive, best, tasks, streaming, receiver, delivered,
                   tasks_lock, write_lock, best_lock, sender_lock, task,
                   current_working, index, main_pc, run_result, returned,
                   chosen, improved, last_stop, seen_round, seen_stale, gvars,
                   nvars>>

\* Every guard work_on and consider_improvement hold is dropped on return.
Return(t) ==
    /\ write_lock' = [write_lock EXCEPT ![index[t] + 1] = {}]
    /\ best_lock' = release(best_lock \cup {t}, t)
    /\ sender_lock' = {}
    /\ BackToLoop(t)

\* Swarm::consider_improvement, lines 161-164.
Consider(t) ==
    /\ pc[t] = "consider"
    /\ best_lock = {}
    /\ LET c == working[index[t] + 1].candidate
       IN /\ best' = consider_best(c, best)
          /\ improved' = IF best' # best /\ IsSome(streaming)
                         THEN Append(improved, best')
                         ELSE improved
          /\ IF Better(c, best) /\ IsSome(streaming)
             THEN /\ best_lock' = {t}
                  /\ pc' = [pc EXCEPT ![t] = "send"]
                  /\ UNCHANGED <<write_lock, sender_lock, locals>>
             ELSE Return(t)
    /\ UNCHANGED <<hive, working, tasks, streaming, receiver, delivered,
                   tasks_lock, builder_lock, main_pc, run_result, returned,
                   chosen, last_stop, seen_round, seen_stale, gvars, nvars>>

\* Sender::send: the channel after a send, which fails once the Receiver is
\* gone.
send(ch, rx, c) == IF rx = "alive" THEN Append(ch, c) ELSE ch

\* Swarm::consider_improvement, lines 166-168.
Send(t) ==
    /\ pc[t] = "send"
    /\ sender_lock = {}
    /\ delivered' = send(delivered, receiver, working[index[t] + 1].candidate)
    /\ IF receiver = "alive"
       THEN Return(t)
       ELSE /\ sender_lock' = {t}
            /\ pc' = [pc EXCEPT ![t] = "stop"]
            /\ UNCHANGED <<write_lock, best_lock, locals>>
    /\ UNCHANGED <<hive, working, best, tasks, streaming, receiver,
                   tasks_lock, builder_lock, main_pc, run_result, returned,
                   chosen, improved, last_stop, seen_round, seen_stale, gvars,
                   nvars>>

\* Swarm::consider_improvement, line 169: the send failed, stop the run.
StopOnDisconnect(t) ==
    /\ pc[t] = "stop"
    /\ tasks_lock = {}
    /\ tasks' = Swarm_stop(tasks)
    /\ Return(t)
    /\ UNCHANGED <<hive, working, best, streaming, receiver, delivered,
                   tasks_lock, builder_lock, main_pc, run_result, returned,
                   chosen, improved, last_stop, seen_round, seen_stale, gvars,
                   nvars>>

\* Swarm::run, lines 257-262, and the return of run_for_rounds (line 273).
\* handle.join() hands back the AbcResult<()> the thread returned, so for a
\* thread that panicked it has nothing to hand back and propagates the panic
\* into the caller; the scope still waits for every thread on the way out.
\* The scheduler is cleared and the best cloned only when the fold completes.
Join ==
    /\ main_pc = "running"
    /\ \A t \in Spawned : pc[t] \in {"exited", "panicked"}
    /\ tasks_lock = {}
    /\ LET ok == \A t \in Spawned : pc[t] = "exited"
       IN /\ (ok /\ streaming = None) => best_lock = {}
          /\ tasks' = IF ok THEN None ELSE tasks
          /\ main_pc' = IF ok THEN "done" ELSE "panicked"
          /\ run_result' = IF ok THEN "Ok" ELSE "Panic"
          /\ returned' = IF ok /\ streaming = None THEN Some(best) ELSE None
    /\ UNCHANGED <<hive, working, best, streaming, receiver, delivered, locks,
                   pc, locals, chosen, improved, last_stop, seen_round,
                   seen_stale, gvars, nvars>>

\* What an external stop() call finds.
stop_case(ts, mpc) ==
    IF ts = None THEN (IF mpc = "done" THEN "after_run" ELSE "before_run")
    ELSE IF Unwrap(ts).stopped THEN "again" ELSE "first"

\* Swarm::stop called by the owner of the swarm (stream() takes the swarm away).
Stop ==
    /\ streaming = None
    /\ tasks_lock = {}
    /\ tasks' = Swarm_stop(tasks)
    /\ last_stop' = stop_case(tasks, main_pc)
    /\ UNCHANGED <<hive, working, best, streaming, receiver, delivered, locks,
                   pc, locals, main_pc, run_result, returned, chosen, improved,
                   seen_round, seen_stale, gvars, nvars>>

\* Swarm::get_round called by the owner of the swarm.
GetRound ==
    /\ streaming = None
    /\ tasks_lock = {}
    /\ seen_round' = Swarm_get_round(tasks)
    /\ seen_stale' = FALSE
    /\ UNCHANGED <<hive, working, best, tasks, streaming, receiver, delivered,
                   locks, pc, locals, main_pc, run_result, returned, chosen,
                   improved, last_stop, gvars, nvars>>

\* The owner of the swarm, as a holder of locks.
Owner == 0

\* Swarm::get called by the owner of the swarm, who keeps the guard.
Get ==
    /\ streaming = None
    /\ best_lock = {}
    /\ best_lock' = {Owner}
    /\ UNCHANGED <<hive, working, best, tasks, streaming, receiver, delivered,
                   tasks_lock, write_lock, sender_lock, builder_lock, pc,
                   locals, main_pc, run_result, returned, chosen, improved,
                   last_stop, seen_round, seen_stale, gvars, nvars>>

\* The owner drops the guard get() returned.
GetDrop ==
    /\ best_lock = {Owner}
    /\ best_lock' = {}
    /\ UNCHANGED <<hive, working, best, tasks, streaming, receiver, delivered,
                   tasks_lock, write_lock, sender_lock, builder_lock, pc,
                   locals, main_pc, run_result, returned, chosen, improved,
                   last_stop, seen_round, seen_stale, gvars, nvars>>

\* One step of a worker thread of a run without a sink.
Refine_step(t) ==
    \/ LockTasks(t)
    \/ Pull(t)
    \/ Read(t)
    \/ Explore(t)
    \/ LockBuilder(t)
    \/ Make(t)
    \/ Consider(t)

\* One step of a worker thread.
Worker_step(t) ==
    \/ Refine_step(t)
    \/ Send(t)
    \/ StopOnDisconnect(t)

Next ==
    \/ RunForRounds
    \/ Stream
    \/ DropReceiver
    \/ Join
    \/ Stop
    \/ GetRound
    \/ \E t \in Threads : Worker_step(t)

Spec == Init /\ [][Next]_vars

\* run_for_rounds alone, under a fair scheduler: a thread that can take a step
\* eventually takes one, and the caller of run joins the threads that ended.
RunNext ==
    \/ RunForRounds
    \/ Join
    \/ \E t \in Threads : Refine_step(t)

\* The owner runs the swarm for some rounds, again and again, and polls
\* get_round meanwhile.
RerunNext ==
    \/ RunForRounds
    \/ RunAgain
    \/ Join
    \/ GetRound
    \/ \E t \in Threads : Refine_step(t)

SpecRerun == Init /\ [][RerunNext]_vars

FairRun ==
    /\ Init
    /\ [][RunNext]_vars
    /\ WF_vars(Join)
    /\ \A t \in Threads : WF_vars(Refine_step(t))

\* run_for_rounds with an owner that may call stop(), under the same fair
\* scheduler; the owner calls stop() when it pleases.
StopNext ==
    \/ RunForRounds
    \/ Join
    \/ Stop
    \/ \E t \in Threads : Refine_step(t)

FairStop ==
    /\ Init
    /\ [][StopNext]_vars
    /\ WF_vars(Join)
    /\ \A t \in Threads : WF_vars(Refine_step(t))

\* The engine with an owner that also takes and drops the guard of get().
LocksNext ==
    \/ Next
    \/ Get
    \/ GetDrop

SpecLocks == Init /\ [][LocksNext]_vars

\* stream() under the same fair scheduler; the holder of the Receiver drops
\* it when it pleases.
StreamNext ==
    \/ Stream
    \/ DropReceiver
    \/ Join
    \/ \E t \in Threads : Worker_step(t)

FairStream ==
    /\ Init
    /\ [][StreamNext]_vars
    /\ WF_vars(Join)
    /\ \A t \in Threads : WF_vars(Worker_step(t))

\* ------------------------------------------------------------ Swarm::new
\* Hive::swarm is called: no candidate is built yet, no Swarm exists.
NewInit ==
    /\ \E w \in 1..MaxSlots, o \in 0..MaxSwarmObservers,
          r \in 0..MaxRetries, n \in 1..MaxThreads :
          hive = [workers |-> w, observers |-> o, retries |-> r, threads |-> n]
    /\ working = << >>
    /\ best = 0
    /\ tasks = None
    /\ streaming = None
    /\ receiver = "none"
    /\ delivered = << >>
    /\ tasks_lock = {}
    /\ write_lock = << >>
    /\ best_lock = {}
    /\ sender_lock = {}
    /\ builder_lock = {}
    /\ pc = [t \in Threads |-> "unspawned"]
    /\ task = [t \in Threads |-> None]
    /\ current_working = [t \in Threads |-> << >>]
    /\ index = [t \in Threads |-> 0]
    /\ main_pc = "new"
    /\ run_result = "none"
    /\ returned = None
    /\ chosen = FALSE
    /\ improved = << >>
    /\ last_stop = "never"
    /\ seen_round = None
    /\ seen_stale = FALSE
    /\ tokens = 0
    /\ candidates = << >>
    /\ built = [t \in Threads |-> None]
    /\ made = 0
    /\ tokens_lock = {}
    /\ gen = TaskGenerator_new(1, 0)
    /\ emitted = << >>
    /\ result = None
    /\ calls = "none"
    /\ ext_stop = FALSE

\* What no step of Swarm::new touches.
NewFrame ==
    UNCHANGED <<hive, tasks, streaming, receiver, delivered, tasks_lock,
                best_lock, sender_lock, locals, run_result, returned, chosen,
                improved, last_stop, seen_round, seen_stale, gvars>>

\* Swarm::new, lines 87-93: the scope spawns hive.threads threads.
NewSpawn ==
    /\ main_pc = "new"
    /\ main_pc' = "building"
    /\ pc' = [t \in Threads |->
                IF t \in Spawned THEN "new_loop" ELSE "unspawned"]
    /\ UNCHANGED <<working, best, write_lock, builder_lock, nvars>>
    /\ NewFrame

\* Swarm::new, line 94: tokens.lock().unwrap().next().  The guard is a
\* temporary of the scrutinee of the while let: on Some it lives to the end
\* of the turn of the loop, on None to the end of the loop.
NewToken(t) ==
    /\ pc[t] = "new_loop"
    /\ tokens_lock = {}
    /\ IF tokens < hive.workers
       THEN /\ tokens' = tokens + 1
            /\ tokens_lock' = {t}
            /\ pc' = [pc EXCEPT ![t] = "new_body"]
       ELSE /\ pc' = [pc EXCEPT ![t] = "new_done"]
            /\ UNCHANGED <<tokens, tokens_lock>>
    /\ UNCHANGED <<working, best, write_lock, builder_lock, main_pc,
                   candidates, built, made>>
    /\ NewFrame

\* Swarm::new, lines 95-98: lock the builder.
NewLockBuilder(t) ==
    /\ pc[t] = "new_body"
    /\ builder_lock = {}
    /\ builder_lock' = {t}
    /\ pc' = [pc EXCEPT ![t] = "new_make"]
    /\ UNCHANGED <<working, best, write_lock, main_pc, nvars>>
    /\ NewFrame

\* Swarm::new, lines 99-101: S::make builds some candidate; the builder is
\* released.
NewMake(t) ==
    /\ pc[t] = "new_make"
    /\ \E f \in Fitness : built' = [built EXCEPT ![t] = Some(f)]
    /\ made' = made + 1
    /\ builder_lock' = {}
    /\ pc' = [pc EXCEPT ![t] = "new_push"]
    /\ UNCHANGED <<working, best, write_lock, main_pc, tokens, candidates,
                   tokens_lock>>
    /\ NewFrame

\* Swarm::new, lines 102-103: push the candidate; the turn of the loop ends.
NewPush(t) ==
    /\ pc[t] = "new_push"
    /\ candidates' = Append(candidates, Unwrap(built[t]))
    /\ built' = [built EXCEPT ![t] = None]
    /\ tokens_lock' = tokens_lock \ {t}
    /\ pc' = [pc EXCEPT ![t] = "new_loop"]
    /\ UNCHANGED <<working, best, write_lock, builder_lock, main_pc, tokens,
                   made>>
    /\ NewFrame

\* Swarm::new, lines 108-137: the threads are joined, the best candidate is
\* cloned and the candidates become the slots.
Activate ==
    /\ main_pc = "building"
    /\ \A t \in Spawned : pc[t] = "new_done"
    /\ best' = best_of(candidates)
    /\ working' = [i \in 1..Len(candidates) |->
                      WorkingCandidate_new(candidates[i], hive.retries)]
    /\ write_lock' = [i \in 1..Len(candidates) |-> {}]
    /\ candidates' = << >>
    /\ pc' = [t \in Threads |-> "unspawned"]
    /\ main_pc' = "idle"
    /\ UNCHANGED <<builder_lock, tokens, built, made, tokens_lock>>
    /\ NewFrame

\* One step of a thread of Swarm::new.
New_step(t) ==
    \/ NewToken(t)
    \/ NewLockBuilder(t)
    \/ NewMake(t)
    \/ NewPush(t)

\* Activation followed by one run_for_rounds.
NewNext ==
    \/ NewSpawn
    \/ Activate
    \/ RunForRounds
    \/ Join
    \/ \E t \in Threads : New_step(t) \/ Refine_step(t)

SpecNew == NewInit /\ [][NewNext]_vars

\* ------------------------------------------------------- claims C1, C2
\* The k-th token (k = 0, 1, ...) of the cycle Worker(0..w-1), Observer(0..o-1).
CycleToken(w, o, k) ==
    LET p == k % (w + o)
    IN IF p < w THEN Worker(p) ELSE Observer(p - w)

\* C1: without an external stop, a generator built by new(W, O).max_rounds(R)
\* emits exactly R * (W + O) tokens and then returns None: it never emits more
\* than that, and it returns None only once it has emitted that many.
C1_ExactlyRTimesCycle ==
    ~ext_stop =>
        LET total == Unwrap(gen.max_rounds) * (gen.workers + gen.observers)
        IN /\ Len(emitted) <= total
           /\ (calls = "some" /\ result = None) => Len(emitted) = total

\* C2: the emitted tokens are the cycle Worker(0..W-1), Observer(0..O-1)
\* repeated from Worker(0) (the observer phase is absent when O = 0), and
\* every emitted index lies in [0, W) for a Worker and [0, O) for an Observer.
C2_FixedCycle ==
    \A i \in 1..Len(emitted) :
        /\ emitted[i] = CycleToken(gen.workers, gen.observers, i - 1)
        /\ emitted[i].n >= 0
        /\ emitted[i].kind = "Worker" => emitted[i].n < gen.workers
        /\ emitted[i].kind = "Observer" => emitted[i].n < gen.observers

\* C2 witness: a second cycle has begun after a full observer phase.
C2_Witness ==
    /\ gen.workers = 2
    /\ gen.observers = 2
    /\ Len(emitted) = 6
    /\ emitted[4] = Observer(1)
    /\ emitted[5] = Worker(0)

\* ------------------------------------------------------ claims C3 - C10
\* The step is thread t's pull of the token tk from the installed scheduler.
Pulls(t, tk) == pc[t] = "locked" /\ pc'[t] = "read" /\ task'[t] = Some(tk)

\* What one step does to the round counter, and what get_round reports.
C3_RoundStep ==
    /\ (~IsSome(tasks) /\ IsSome(tasks')) => Unwrap(tasks').round = 0
    /\ (IsSome(tasks) /\ IsSome(tasks')) =>
          Unwrap(tasks').round =
             Unwrap(tasks).round +
             (IF \E t \in Threads : Pulls(t, Observer(hive.observers - 1))
              THEN 1 ELSE 0)
    /\ (seen_round' # seen_round /\ IsSome(tasks)) =>
          seen_round' = Some(Unwrap(tasks).round)

\* C3 as stated: the round counter starts at 0, grows by exactly one in the
\* step that emits the last observer token Observer(O-1) and is left alone by
\* every other step; the value get_round returns never decreases over
\* successive calls.
C3_RoundNeverDecreases ==
    [][/\ C3_RoundStep
       /\ (IsSome(seen_round) /\ IsSome(seen_round')) =>
             Unwrap(seen_round') >= Unwrap(seen_round)]_vars

\* C3 as amended: the round counter starts at 0, grows by exactly one in the
\* step that emits the last observer token Observer(O-1) and is left alone by
\* every other step; the value get_round returns never decreases over
\* successive calls made while the same scheduler is installed.
C3_RoundCounter ==
    [][/\ C3_RoundStep
       /\ (IsSome(seen_round) /\ IsSome(seen_round') /\ ~seen_stale) =>
             Unwrap(seen_round') >= Unwrap(seen_round)]_vars

\* C3 witness: within one run get_round reported round 0, a round was
\* completed, and get_round then reported round 1.
C3_Witness ==
    /\ IsSome(tasks)
    /\ Unwrap(tasks).round = 1
    /\ seen_round = Some(1)
    /\ ~seen_stale
    /\ main_pc = "running"

\* C4: with observers = 0, choose is never invoked, and the round counter has
\* advanced once the last worker token Worker(W-1) of a sweep has been pulled.
C4_WorkerSweepAdvancesRound ==
    hive.observers = 0 =>
        /\ ~chosen
        /\ \A t \in Threads :
              (IsSome(tasks) /\ task[t] = Some(Worker(hive.workers - 1))) =>
                  Unwrap(tasks).round >= 1

\* C5: a run started by run_for_rounds ends: every worker thread leaves its
\* loop, the threads are joined and the call is over.
C5_RunTerminates ==
    (main_pc = "running") ~>
        (/\ main_pc \in {"done", "panicked"}
         /\ \A t \in Spawned : pc[t] \in {"exited", "panicked"})

\* A step that changes the best slot raises it.
C6_BestStep == best' # best => best' > best

\* C6: the fitness in the best slot never decreases: every step that writes a
\* different value to the best slot writes a strictly greater one.
C6_BestNeverDecreases == [][C6_BestStep]_vars

\* C6 witness: the best slot has been raised twice (from 0 to 1, then to 2)
\* while a slot holds a candidate below it.
C6_Witness ==
    /\ improved = <<1, 2>>
    /\ best = 2
    /\ \E i \in 1..hive.workers : working[i].candidate < best

\* What the compare and the re-initialisation of work_on do to the slot.
C7_RetryStep ==
    \A t \in Threads :
        LET i == index[t] + 1
        IN /\ (pc[t] = "explore" /\ pc'[t] = "consider") =>
                 /\ working'[i].candidate > working[i].candidate
                 /\ working'[i].retries = hive.retries
           /\ (pc[t] = "explore" /\ pc'[t] \in {"loop", "builder"}) =>
                 /\ working'[i].candidate = working[i].candidate
                 /\ working[i].retries > 0 =>
                       working'[i].retries = working[i].retries - 1
                 /\ working[i].retries = 0 => working'[i].retries = 0
                 /\ (pc'[t] = "builder") = (working'[i].retries = 0)
           /\ (pc[t] = "make" /\ pc'[t] = "consider") =>
                 working'[i].retries = hive.retries

\* No other step touches a slot, and the counter stays within 0..R.
C7_RetryFrame ==
    \A i \in 1..hive.workers :
        /\ working'[i].retries \in 0..hive.retries
        /\ working'[i] # working[i] =>
              \E t \in Threads :
                  /\ index[t] + 1 = i
                  /\ pc[t] \in {"explore", "make"}
                  /\ pc'[t] # pc[t]

\* C7: a slot's retries_remaining is reset to the budget R when its candidate
\* is replaced by a strictly better one or by a fresh one after expiration,
\* drops by exactly one on a rejected refinement (staying at zero, where the
\* replacement follows at once), changes at no other time and never leaves
\* 0..R.
C7_RetryBudget == [][C7_RetryStep /\ C7_RetryFrame]_vars

\* C7 witness: with a budget of 2, one slot was depleted once and released,
\* and the other was depleted to zero and awaits its replacement.
C7_Witness ==
    /\ hive.retries = 2
    /\ hive.workers = 2
    /\ working[1].retries = 1
    /\ write_lock[1] = {}
    /\ working[2].retries = 0
    /\ \E t \in Threads : pc[t] = "builder" /\ index[t] = 1

\* A stop() with nothing left to stop changes nothing.
C8_StopStep ==
    (Stop /\ (tasks = None \/ Unwrap(tasks).stopped)) =>
        UNCHANGED <<hive, working, best, tasks, streaming, receiver, delivered,
                    locks, pc, locals, main_pc, run_result, returned>>

\* C8: a stop() that finds no scheduler installed (before any run, or after a
\* run completed), or finds the installed one already stopped, changes no
\* engine state: population, best, scheduler slot, sink, locks and threads.
C8_StopIsNoOp == [][C8_StopStep]_vars

\* C8 witness: stop() was called after a run completed, and found no scheduler.
C8_Witness ==
    /\ last_stop = "after_run"
    /\ main_pc = "done"
    /\ tasks = None

\* The sequence is strictly increasing.
StrictlyIncreasing(q) == \A i \in 1..(Len(q) - 1) : q[i] < q[i + 1]

\* C9: the candidates delivered to the receiver have strictly increasing
\* fitness and are, one for one, the values written to the best slot: while
\* the receiver is alive and no publication is in progress, the two sequences
\* are equal.
C9_OneItemPerImprovement ==
    /\ StrictlyIncreasing(delivered)
    /\ Len(delivered) <= Len(improved)
    /\ \A i \in 1..Len(delivered) : delivered[i] = improved[i]
    /\ (receiver = "alive" /\ best_lock = {}) => delivered = improved

\* C9 witness: two improvements were delivered, with two threads at work.
C9_Witness ==
    /\ delivered = <<1, 2>>
    /\ receiver = "alive"
    /\ hive.threads = 2
    /\ best = 2

\* What the failed publication does, and what a stopped scheduler hands out.
C10_DisconnectStep ==
    \A t \in Threads :
        /\ (pc[t] = "stop" /\ pc'[t] # "stop") =>
              /\ pc'[t] = "loop"
              /\ IsSome(tasks') /\ Unwrap(tasks').stopped
              /\ best' = working[index[t] + 1].candidate
              /\ best' = best
        /\ (IsSome(tasks) /\ Unwrap(tasks).stopped) =>
              /\ IsSome(tasks') => Unwrap(tasks').stopped
              /\ (pc[t] = "locked" /\ pc'[t] # "locked") =>
                    pc'[t] = "exited" /\ task'[t] = None

\* C10: the refinement whose publication failed sets the stop flag of the
\* installed scheduler and returns normally, leaving its candidate in the
\* best slot; a stopped scheduler stays stopped and hands out no token.
C10_DisconnectStops == [][C10_DisconnectStep]_vars

\* C10 witness: a publication failed, the scheduler is stopped, the best slot
\* holds the candidate that was not delivered, and a thread has left its loop.
C10_Witness ==
    /\ receiver = "dropped"
    /\ IsSome(tasks)
    /\ Unwrap(tasks).stopped
    /\ Len(improved) > Len(delivered)
    /\ best = improved[Len(improved)]
    /\ \E t \in Threads : pc[t] = "exited"
    /\ \A t \in Threads : pc[t] # "stop"

\* ----------------------------------------------------- claims C11 - C20
\* Every worker thread of the run is over.
AllFinished == \A t \in Spawned : pc[t] \in {"exited", "panicked"}

\* What a get_round() call reports, and when the scheduler slot is emptied.
C11_GetRoundStep ==
    /\ GetRound =>
          /\ (seen_round' = None) <=> (main_pc # "running")
          /\ main_pc = "running" => seen_round' = Some(Unwrap(tasks).round)
    /\ (IsSome(tasks) /\ tasks' = None) => AllFinished

\* C11: get_round returns None exactly when no run is active: before the
\* first run and after every run is over, also one in which a worker thread
\* failed; during a run it returns the round counter of that run's scheduler;
\* the scheduler slot is emptied only once every worker thread has ended.
C11_GetRoundTracksRun == [][C11_GetRoundStep]_vars

\* C16: once the run call is over every worker thread of the run has ended;
\* the run reported success exactly if every thread left its loop normally,
\* and it returned an error if some thread failed.
C16_RunOutcome ==
    main_pc \in {"done", "panicked"} =>
        /\ AllFinished
        /\ (run_result = "Ok") <=> (\A t \in Spawned : pc[t] = "exited")
        /\ (\E t \in Spawned : pc[t] = "panicked") => run_result = "Err"

\* What a step does once the installed scheduler is stopped.
C12_StopStep ==
    (IsSome(tasks) /\ Unwrap(tasks).stopped) =>
        /\ IsSome(tasks') => Unwrap(tasks').stopped
        /\ \A t \in Threads :
              /\ (pc[t] = "locked" /\ pc'[t] # "locked") =>
                    pc'[t] = "exited" /\ task'[t] = None
              /\ pc'[t] = "read" => pc[t] = "read"
              /\ (pc'[t] = "exited" /\ pc[t] # "exited") => pc[t] = "locked"

\* C12: once the stop flag of the installed scheduler is set it stays set,
\* every pull returns None and no refinement starts; a thread whose
\* refinement is in flight is not taken out of it (a thread leaves its loop
\* only at a pull), and every worker thread of the run eventually ends.
C12_StopIsPermanent ==
    /\ [][C12_StopStep]_vars
    /\ (IsSome(tasks) /\ Unwrap(tasks).stopped) ~> AllFinished

\* C12 witness: stop() set the flag while one thread was refining and the
\* other waiting for the scheduler; the refinement went on, the other left.
C12_Witness ==
    /\ last_stop = "first"
    /\ IsSome(tasks)
    /\ Unwrap(tasks).stopped
    /\ Unwrap(tasks).max_rounds = Some(1)
    /\ Unwrap(tasks).round = 0
    /\ \E t, u \in Spawned : pc[t] = "consider" /\ pc[u] = "exited"

\* Thread t is between the write() of work_on and the drop of its guard.
InSection(t) == pc[t] \in {"consider", "builder", "make", "send", "stop"}

\* The threads inside the section of slot i (slot i - 1 of the code).
Inside(i) == {t \in Threads : InSection(t) /\ index[t] + 1 = i}

\* A step that changes slot i is taken by a thread working on slot i while no
\* other thread is inside the section of slot i.
C13_SlotStep ==
    \A i \in 1..hive.workers :
        working'[i] # working[i] =>
            \E t \in Threads :
                /\ index[t] + 1 = i
                /\ pc[t] \in {"explore", "make"}
                /\ pc'[t] # pc[t]
                /\ Inside(i) \subseteq {t}

\* C13: for every slot, at most one thread is inside the compare / replace /
\* deplete / expire section, and it is the holder of the slot's write lock;
\* every update of the slot's candidate and retry counter is made by a thread
\* that has the section to itself.
C13_SlotExclusive ==
    /\ [](\A i \in 1..hive.workers :
            Cardinality(Inside(i)) <= 1 /\ write_lock[i] = Inside(i))
    /\ [][C13_SlotStep]_vars

\* C13 witness: a Worker(0) token and an Observer token that selected slot 0
\* race: one thread is inside the section of slot 0, the other has its variant
\* and waits for the write lock.
C13_Witness ==
    \E t, u \in Spawned :
        /\ task[t] = Some(Worker(0))
        /\ task[u] = Some(Observer(0))
        /\ index[t] = 0
        /\ index[u] = 0
        /\ pc[t] = "explore"
        /\ pc[u] = "consider"

\* Two threads are inside the sections of two different slots.
C13_TwoSlotsAtOnce ==
    \E t, u \in Spawned : InSection(t) /\ InSection(u) /\ index[t] # index[u]

\* The threads that take a token from the scheduler in this step.
Takers == {t \in Threads : pc[t] = "locked" /\ pc'[t] = "read"}

\* The threads that have a token and have not finished executing it.
Holding(tk) == {t \in Threads : task[t] = Some(tk)}

\* What a step does to the scheduler's position and to the tokens in hand.
C14_TokenStep ==
    /\ Cardinality(Takers) <= 1
    /\ \A t \in Takers :
          /\ IsSome(tasks) /\ ~Unwrap(tasks).stopped
          /\ task[t] = None
          /\ task'[t] = Some(Unwrap(tasks).next)
          /\ tasks' = Some(Advance(Unwrap(tasks)))
    /\ \A t \in Threads \ Takers :
          /\ task'[t] \in {task[t], None}
          /\ (pc[t] \in {"read", "explore"} /\ pc'[t] # pc[t]) =>
                pc'[t] \notin {"read", "locked"}
    /\ (Takers = {} /\ IsSome(tasks) /\ IsSome(tasks')) =>
          /\ Unwrap(tasks').next = Unwrap(tasks).next
          /\ Unwrap(tasks').round = Unwrap(tasks).round

\* C14: every token the installed scheduler emits goes to exactly one thread:
\* a pull hands the head token to the one thread that holds the scheduler
\* lock and moves the scheduler one position on, no other step moves it or
\* gives a thread a token, and a thread gives up its token only by executing
\* it, once; so no token is handed out twice and none is skipped.
C14_EachTokenOnce == [][C14_TokenStep]_vars

\* C14 witness: two threads raced for the scheduler and hold the first two
\* tokens of the cycle, one each, and the scheduler is at the third.
C14_Witness ==
    /\ hive.workers = 2
    /\ hive.observers = 1
    /\ hive.threads = 2
    /\ Holding(Worker(0)) = {2}
    /\ Holding(Worker(1)) = {1}
    /\ IsSome(tasks)
    /\ Unwrap(tasks).next = Observer(0)
    /\ Unwrap(tasks).round = 0

\* The locks thread t holds: the single ones as <<name, 0>>, the write lock of
\* slot i - 1 as <<"working", i>>.
Held(t) ==
    (IF t \in tasks_lock THEN {<<"tasks", 0>>} ELSE {})
    \cup (IF t \in best_lock THEN {<<"best", 0>>} ELSE {})
    \cup (IF t \in sender_lock THEN {<<"sender", 0>>} ELSE {})
    \cup (IF t \in builder_lock THEN {<<"builder", 0>>} ELSE {})
    \cup {<<"working", i>> :
             i \in {j \in 1..hive.workers : t \in write_lock[j]}}

\* C15: a thread that is executing S::explore (or has its variant and waits
\* for the slot) holds no lock: not the scheduler lock, no slot lock, not the
\* best lock, not the sender lock and not the builder lock.
C15_ExploreHoldsNoLock == \A t \in Threads : pc[t] = "explore" => Held(t) = {}

\* C15 witness: one thread explores for slot 0 while the other is inside the
\* section of slot 0 and holds the builder lock as well.
C15_Witness ==
    \E t, u \in Spawned :
        /\ pc[t] = "explore"
        /\ index[t] = 0
        /\ Held(u) = {<<"builder", 0>>, <<"working", 1>>}

\* The threads of Swarm::new that are inside S::make.
Making == {t \in Threads : pc[t] = "new_make"}

\* The population Swarm::new hands over.
C17_ActivateStep ==
    (main_pc = "building" /\ main_pc' = "idle") =>
        /\ made = hive.workers
        /\ Len(working') = hive.workers
        /\ \A i \in 1..hive.workers : working'[i].retries = hive.retries
        /\ \E i \in 1..hive.workers : working'[i].candidate = best'
        /\ \A i \in 1..hive.workers : working'[i].candidate <= best'

\* C17: for every worker count W and thread count T (T < W, T = W, T > W)
\* Swarm::new never has two threads inside S::make, calls it at most W times
\* and exactly W times by the time it returns; the population it returns has W
\* slots, each with the full retry budget, and best holds the greatest
\* fitness among them; the population keeps its length W ever after.
C17_Activation ==
    /\ [](/\ Cardinality(Making) <= 1
          /\ builder_lock \in {Making, {t \in Threads : pc[t] = "make"}}
          /\ made <= hive.workers
          /\ main_pc \notin {"new", "building"} =>
                made = hive.workers /\ Len(working) = hive.workers)
    /\ [][C17_ActivateStep]_vars

\* C17 witness: two threads built two candidates of different
\* fitness, the better one first, and the swarm has been run since.
C17_Witness ==
    /\ hive.workers = 2
    /\ hive.threads = 2
    /\ made = 2
    /\ main_pc = "done"
    /\ best = 1
    /\ working[1].candidate = 1
    /\ working[2].candidate = 0

\* The run has been followed as far as the model follows a run without a
\* round limit.
AtRoundCap == IsSome(tasks) /\ Unwrap(tasks).round >= RoundCap

\* C18: in streaming mode the scheduler is not stopped while the Receiver is
\* alive, and once the Receiver has been dropped the run ends: the stop flag
\* is set, every worker thread leaves and run returns (runs are followed up
\* to round RoundCap).
C18_DropEndsStream ==
    /\ []((receiver = "alive" /\ IsSome(tasks)) => ~Unwrap(tasks).stopped)
    /\ (receiver = "dropped") ~>
          ((main_pc \in {"done", "panicked"} /\ AllFinished) \/ AtRoundCap)

\* The holders of the lock thread t needs for its next step (nobody: t needs
\* no lock, or the lock is free).
waits_for(t) ==
    CASE pc[t] \in {"loop", "stop"} -> tasks_lock
      [] pc[t] = "read" -> write_lock[Len(current_working[t]) + 1]
      [] pc[t] = "explore" -> write_lock[index[t] + 1]
      [] pc[t] = "builder" -> builder_lock
      [] pc[t] = "consider" -> best_lock
      [] pc[t] = "send" -> sender_lock
      [] OTHER -> {}

\* Thread t is inside the loop of Swarm::run.
Active(t) == pc[t] \notin {"unspawned", "exited", "panicked"}

\* Thread t is at the head of the loop of a run that is followed no further.
Capped(t) ==
    /\ pc[t] = "loop"
    /\ IsSome(tasks)
    /\ ~Unwrap(tasks).stopped
    /\ Unwrap(tasks).round >= RoundCap

\* C19: no set of worker threads is deadlocked, each waiting for a lock that
\* only members of the set hold (the owner's guards are always given back);
\* and a thread in the loop that waits for nobody can take its next step.
C19_NoDeadlock ==
    /\ \A S \in SUBSET Threads :
          S # {} =>
              \E t \in S : waits_for(t) = {} \/ ~(waits_for(t) \subseteq S)
    /\ \A t \in Threads :
          (Active(t) /\ waits_for(t) = {} /\ ~Capped(t)) =>
              ENABLED Worker_step(t)
    /\ (main_pc = "running" /\ AllFinished /\ best_lock \subseteq {Owner}) =>
          (ENABLED Join \/ ENABLED GetDrop)

\* C19 witness: a chain of waiting threads that is no deadlock: one thread
\* waits for the write lock of slot 0, whose holder waits for the best lock,
\* which the owner holds through the guard of get().
C19_Witness ==
    \E t, u \in Spawned :
        /\ pc[t] = "explore"
        /\ waits_for(t) = {u}
        /\ pc[u] = "consider"
        /\ waits_for(u) = {Owner}

\* C20: a slot whose write lock is free holds a candidate no better than the
\* best slot: a replacement is offered to the best slot before the guard of
\* the slot is dropped, and the best of the initial population starts there.
C20_SlotsBelowBest ==
    \A i \in 1..hive.workers :
        write_lock[i] = {} => working[i].candidate <= best

\* C20 witness: in a run, slot 0 was improved to the fitness 1 and then slot
\* 1 to the fitness 2, each raising the best slot, and both slots have been
\* released.
C20_Witness ==
    /\ improved = <<1, 2>>
    /\ hive.workers = 2
    /\ working[1].candidate = 1
    /\ working[2].candidate = 2
    /\ best = 2
    /\ write_lock = <<{}, {}>>
    /\ main_pc = "running"

====
